---- MODULE Spec2Model ----
(***************************************************************************)
(* Model of the byteser-ai-chat server handlers over the relational        *)
(* schema of server/src/db/schema.ts.  Every handler is one action; the    *)
(* database tables are sets of rows.  Text columns are TLA+ strings, SQL   *)
(* NULL / JS null / JS undefined are the sentinel NULL, timestamps are     *)
(* milliseconds on the clock `now`.  users.created_at, which no handler     *)
(* reads or writes, is left out of the user rows.  A session token is the  *)
(* number of the random draw that produced it: randomBytes(32) never       *)
(* returns the same value twice.                                           *)
(***************************************************************************)
EXTENDS Integers, Sequences, FiniteSets, TLC

VARIABLES users, sessions, conversations, messages, researchSources, now,
          nextUserId, nextSessionId, nextConvId, nextMsgId, nextSourceId,
          nextToken, loggedOut, last, calls, ui

vars == <<users, sessions, conversations, messages, researchSources, now,
          nextUserId, nextSessionId, nextConvId, nextMsgId, nextSourceId,
          nextToken, loggedOut, last, calls, ui>>

\* the handler calls that run in several statements, and the state of the chat page
chatVars == <<calls, ui>>

\* the messages and research_sources tables with their serial counters
msgVars == <<messages, researchSources, nextMsgId, nextSourceId>>

(* ---------------- bounds of the model ---------------- *)
MaxUsers == 2
MaxSessions == 2
MaxConvs == 2
MaxTicks == 2
MaxMsgs == 2
MaxSources == 1
MaxCalls == 2
MaxChatMsgs == 4
MaxUiMsgs == 6

(* ---------------- input domains ---------------- *)
NULL == "<null>"
Emails == {"a@x.com", "b@x.com"}
Passwords == {"password1", "password2"}
Salts == {"5a17", "c0de"}
GoogleIds == {"g-1", "g-2"}
\* display name and avatar URL as an OAuth provider supplies them
Profiles == {<<"Bob", NULL>>, <<"Bob", "https://img/1.png">>}
\* text that is searched is a sequence of characters
Titles == {<<"A", "b">>, <<"c">>}

(* 24 * 60 * 60 * 1000 ms, the session lifetime of loginUser / googleAuth *)
SessionTtlMs == 24 * 60 * 60 * 1000
(* the clock advances in steps of twelve hours *)
TickMs == 12 * 60 * 60 * 1000

(* ---------------- error texts ---------------- *)
ErrInvalid == "Invalid email or password"
ErrDeactivated == "User account is deactivated"
ErrOAuth == "This account uses Google sign-in. Please use Google to login."
ErrExists == "User with this email already exists"
ErrUnique == "duplicate key value violates unique constraint"
ErrNoUser == "User does not exist"
ErrNotActive == "User is not active"
NoErr == ""

(* ---------------- helpers ---------------- *)
\* JS truthiness of a nullable string: null, undefined and "" are falsy
Truthy(s) == s # NULL /\ s # ""

\* JS `x || null`
OrNull(s) == IF Truthy(s) THEN s ELSE NULL

\* the only element of a one-row result set
TheRow(rows) == CHOOSE r \in rows : TRUE

\* randomBytes(16).toString('hex') of createUser: any salt
\* pbkdf2Sync(password, salt, 10000, 64, 'sha512').toString('hex'),
\* a deterministic, collision-free function of password and salt
pbkdf2Sync(password, salt) == "kdf(" \o password \o "," \o salt \o ")"

\* variant: the key derived without the salt that is stored
HashPasswordUnsalted(password, salt) == salt \o ":" \o pbkdf2Sync(password, "")

\* `${salt}:${hash}`
HashPassword(password, salt) == salt \o ":" \o pbkdf2Sync(password, salt)

\* the record of the latest call: its input, whether it returned or threw, the
\* error text, the rows it returned, a boolean result, and the rows it read
Op(name, arg, ok, err, rows, flag, old) ==
    [op |-> name, arg |-> arg, ok |-> ok, err |-> err, rows |-> rows,
     flag |-> flag, old |-> old, list |-> <<>>]

(* ---------------- rows the tests put into the database directly ---------------- *)
SeedUserRows ==
    { [id |-> 1, email |-> "a@x.com", password_hash |-> hg[1], display_name |-> "Seed",
       avatar_url |-> "https://img/1.png", google_id |-> hg[2], is_active |-> act,
       updated_at |-> 0] :
         hg \in {<<"password1", NULL>>, <<NULL, "g-1">>}, act \in BOOLEAN }

SeedSessionRow ==
    [id |-> 1, user_id |-> 1, session_token |-> 1,
     expires_at |-> TickMs, created_at |-> 0]

\* the database as a test fixture leaves it
InitDb(seedUsers, seedSessions) ==
    /\ users = seedUsers
    /\ nextUserId = Cardinality(seedUsers) + 1
    /\ sessions = seedSessions
    /\ nextSessionId = Cardinality(seedSessions) + 1
    /\ nextToken = Cardinality(seedSessions) + 1
    /\ conversations = {}
    /\ nextConvId = 1
    /\ messages = {}
    /\ nextMsgId = 1
    /\ researchSources = {}
    /\ nextSourceId = 1
    /\ calls = <<>>
    /\ ui = [conversation |-> 0, messages |-> <<>>]
    /\ now = 0
    /\ loggedOut = {}
    /\ last = Op("init", [x |-> 0], TRUE, NoErr, {}, FALSE, {})

SeedUserSets == {{}} \cup {{u} : u \in SeedUserRows}

Init ==
    \E seedUsers \in SeedUserSets, seedSessions \in {{}, {SeedSessionRow}} :
        /\ seedSessions # {} => seedUsers # {}
        /\ InitDb(seedUsers, seedSessions)

InitUsers == \E seedUsers \in SeedUserSets : InitDb(seedUsers, {})

(* ---------------- the UNIQUE constraints of the users table ---------------- *)
\* TRUE when writing `row` would leave two users with one email or one Google id
UsersUniqueViolation(row) ==
    \E u \in users :
        /\ u.id # row.id
        /\ \/ u.email = row.email
           \/ row.google_id # NULL /\ u.google_id = row.google_id

(* ---------------- validateSession ---------------- *)
\* variant: the expiry compared with >= instead of >
ValidSessionJoinGte(sessionToken) ==
    { su \in sessions \X users :
        /\ su[1].user_id = su[2].id
        /\ su[1].session_token = sessionToken
        /\ su[1].expires_at >= now
        /\ su[2].is_active = TRUE }

\* the rows of user_sessions INNER JOIN users that pass the WHERE clause
ValidSessionJoin(sessionToken) ==
    { su \in sessions \X users :
        /\ su[1].user_id = su[2].id
        /\ su[1].session_token = sessionToken
        /\ su[1].expires_at > now
        /\ su[2].is_active = TRUE }

\* the user validateSession returns, as a set: {} stands for null
validateSessionResult(sessionToken) ==
    IF ValidSessionJoin(sessionToken) = {} THEN {}
    ELSE {TheRow(ValidSessionJoin(sessionToken))[2]}

validateSession(sessionToken) ==
    /\ last' = Op("validateSession", [token |-> sessionToken], TRUE, NoErr,
                  validateSessionResult(sessionToken), FALSE, {})
    /\ UNCHANGED chatVars /\ UNCHANGED msgVars /\ UNCHANGED <<users, sessions, conversations, now, nextUserId,
                   nextSessionId, nextConvId, nextToken, loggedOut>>

(* ---------------- logoutUser ---------------- *)
\* variant: the delete matches every session of the token's owner
logoutUserOfOwner(sessionToken) ==
    LET owners == {s.user_id : s \in {x \in sessions : x.session_token = sessionToken}}
        deleted == {s \in sessions : s.user_id \in owners}
    IN
    /\ sessions' = sessions \ deleted
    /\ loggedOut' = IF deleted # {} THEN loggedOut \cup {sessionToken} ELSE loggedOut
    /\ last' = Op("logoutUser", [token |-> sessionToken], TRUE, NoErr,
                  {}, Cardinality(deleted) > 0, deleted)
    /\ UNCHANGED chatVars /\ UNCHANGED msgVars /\ UNCHANGED <<users, conversations, now, nextUserId,
                   nextSessionId, nextConvId, nextToken>>

logoutUser(sessionToken) ==
    LET deleted == {s \in sessions : s.session_token = sessionToken} IN
    /\ sessions' = sessions \ deleted
    /\ loggedOut' = IF deleted # {} THEN loggedOut \cup {sessionToken} ELSE loggedOut
    /\ last' = Op("logoutUser", [token |-> sessionToken], TRUE, NoErr,
                  {}, Cardinality(deleted) > 0, deleted)
    /\ UNCHANGED chatVars /\ UNCHANGED msgVars /\ UNCHANGED <<users, conversations, now, nextUserId,
                   nextSessionId, nextConvId, nextToken>>

(* ---------------- session issue shared by loginUser and googleAuth ---------------- *)
\* variant: a token derived from the number of stored sessions
randomTokenByCount == Cardinality(sessions) + 1

\* randomBytes(32).toString('hex'): a value that was never drawn before
randomToken == nextToken

\* variant: the lifetime computed in seconds, 24 * 60 * 60
NewSessionSeconds(userId) ==
    [id |-> nextSessionId, user_id |-> userId, session_token |-> randomToken,
     expires_at |-> now + 24 * 60 * 60, created_at |-> now]

NewSession(userId) ==
    [id |-> nextSessionId, user_id |-> userId, session_token |-> randomToken,
     expires_at |-> now + SessionTtlMs, created_at |-> now]

(* ---------------- loginUser ---------------- *)
\* variant: the is_active check left out
loginErrorNoActiveCheck(email, password) ==
    LET found == {u \in users : u.email = email} IN
    IF found = {} THEN ErrInvalid
    ELSE IF ~Truthy(TheRow(found).password_hash) THEN ErrOAuth
    ELSE IF TheRow(found).password_hash # password THEN ErrInvalid
    ELSE NoErr

loginError(email, password) ==
    LET found == {u \in users : u.email = email} IN
    IF found = {} THEN ErrInvalid
    ELSE IF ~TheRow(found).is_active THEN ErrDeactivated
    ELSE IF ~Truthy(TheRow(found).password_hash) THEN ErrOAuth
    ELSE IF TheRow(found).password_hash # password THEN ErrInvalid
    ELSE NoErr

loginUser(email, password) ==
    LET err == loginError(email, password)
        found == {u \in users : u.email = email}
        input == [email |-> email, password |-> password]
    IN
    IF err # NoErr
    THEN /\ last' = Op("loginUser", input, FALSE, err, {}, FALSE, found)
         /\ UNCHANGED chatVars /\ UNCHANGED msgVars /\ UNCHANGED <<users, sessions, conversations, now, nextUserId,
                        nextSessionId, nextConvId, nextToken, loggedOut>>
    ELSE /\ nextSessionId <= MaxSessions
         /\ sessions' = sessions \cup {NewSession(TheRow(found).id)}
         /\ nextSessionId' = nextSessionId + 1
         /\ nextToken' = nextToken + 1
         /\ last' = Op("loginUser", input, TRUE, NoErr,
                       {NewSession(TheRow(found).id)}, FALSE, found)
         /\ UNCHANGED chatVars /\ UNCHANGED msgVars /\ UNCHANGED <<users, conversations, now, nextUserId, nextConvId, loggedOut>>

(* ---------------- createUser ---------------- *)
\* the row createUser inserts; salt is the value randomBytes(16) returned
NewUserRow(input, salt) ==
    [id |-> nextUserId,
     email |-> input.email,
     password_hash |-> IF Truthy(input.password)
                       THEN HashPassword(input.password, salt) ELSE NULL,
     display_name |-> input.display_name,
     avatar_url |-> OrNull(input.avatar_url),
     google_id |-> OrNull(input.google_id),
     is_active |-> TRUE,
     updated_at |-> now]

\* variant: no lookup by email before the insert
createUserErrorNoLookup(input, salt) ==
    IF UsersUniqueViolation(NewUserRow(input, salt)) THEN ErrUnique
    ELSE NoErr

\* the error createUser throws, NoErr when it returns
createUserError(input, salt) ==
    IF {u \in users : u.email = input.email} # {} THEN ErrExists
    ELSE IF UsersUniqueViolation(NewUserRow(input, salt)) THEN ErrUnique
    ELSE NoErr

createUser(input, salt) ==
    LET existingUsers == {u \in users : u.email = input.email}
        err == createUserError(input, salt)
        row == NewUserRow(input, salt)
    IN
    IF err # NoErr
    THEN /\ last' = Op("createUser", input, FALSE, err, {}, FALSE, existingUsers)
         /\ UNCHANGED chatVars /\ UNCHANGED msgVars /\ UNCHANGED <<users, sessions, conversations, now, nextUserId,
                        nextSessionId, nextConvId, nextToken, loggedOut>>
    ELSE /\ nextUserId <= MaxUsers
         /\ users' = users \cup {row}
         /\ nextUserId' = nextUserId + 1
         /\ last' = Op("createUser", input, TRUE, NoErr, {row}, FALSE, existingUsers)
         /\ UNCHANGED chatVars /\ UNCHANGED msgVars /\ UNCHANGED <<sessions, conversations, now,
                        nextSessionId, nextConvId, nextToken, loggedOut>>

(* ---------------- googleAuth ---------------- *)
existingUserByGoogleId(input) == {u \in users : u.google_id = input.google_id}

existingUserByEmail(input) == {u \in users : u.email = input.email}

\* variant: the lookup by email made first
googleAuthBranchEmailFirst(input) ==
    IF existingUserByEmail(input) # {} THEN "byEmail"
    ELSE IF existingUserByGoogleId(input) # {} THEN "byGoogleId"
    ELSE "create"

\* the branch googleAuth takes
googleAuthBranch(input) ==
    IF existingUserByGoogleId(input) # {} THEN "byGoogleId"
    ELSE IF existingUserByEmail(input) # {} THEN "byEmail"
    ELSE "create"

\* the rows googleAuth resolved the account from, {} when it creates one
googleAuthFound(input) ==
    IF googleAuthBranch(input) = "byGoogleId" THEN existingUserByGoogleId(input)
    ELSE IF googleAuthBranch(input) = "byEmail" THEN existingUserByEmail(input)
    ELSE {}

\* variant: a returning user is refreshed only when the display name changed
googleAuthUserNameOnly(input) ==
    LET branch == googleAuthBranch(input) IN
    IF branch = "byGoogleId"
    THEN LET user == TheRow(existingUserByGoogleId(input)) IN
         IF user.display_name # input.display_name
         THEN [user EXCEPT !.display_name = input.display_name,
                           !.avatar_url = input.avatar_url,
                           !.updated_at = now]
         ELSE user
    ELSE IF branch = "byEmail"
    THEN [TheRow(existingUserByEmail(input)) EXCEPT
              !.google_id = input.google_id,
              !.display_name = input.display_name,
              !.avatar_url = input.avatar_url,
              !.updated_at = now]
    ELSE [id |-> nextUserId,
          email |-> input.email,
          password_hash |-> NULL,
          display_name |-> input.display_name,
          avatar_url |-> input.avatar_url,
          google_id |-> input.google_id,
          is_active |-> TRUE,
          updated_at |-> now]

\* the user row googleAuth ends with
googleAuthUser(input) ==
    LET branch == googleAuthBranch(input) IN
    IF branch = "byGoogleId"
    THEN LET user == TheRow(existingUserByGoogleId(input)) IN
         IF user.display_name # input.display_name \/ user.avatar_url # input.avatar_url
         THEN [user EXCEPT !.display_name = input.display_name,
                           !.avatar_url = input.avatar_url,
                           !.updated_at = now]
         ELSE user
    ELSE IF branch = "byEmail"
    THEN [TheRow(existingUserByEmail(input)) EXCEPT
              !.google_id = input.google_id,
              !.display_name = input.display_name,
              !.avatar_url = input.avatar_url,
              !.updated_at = now]
    ELSE [id |-> nextUserId,
          email |-> input.email,
          password_hash |-> NULL,
          display_name |-> input.display_name,
          avatar_url |-> input.avatar_url,
          google_id |-> input.google_id,
          is_active |-> TRUE,
          updated_at |-> now]

googleAuth(input) ==
    LET branch == googleAuthBranch(input)
        user == googleAuthUser(input)
    IN
    IF UsersUniqueViolation(user)
    THEN /\ last' = Op("googleAuth", input, FALSE, ErrUnique, {}, FALSE,
                       googleAuthFound(input))
         /\ UNCHANGED chatVars /\ UNCHANGED msgVars /\ UNCHANGED <<users, sessions, conversations, now, nextUserId,
                        nextSessionId, nextConvId, nextToken, loggedOut>>
    ELSE /\ branch = "create" => nextUserId <= MaxUsers
         /\ nextSessionId <= MaxSessions
         /\ users' = {u \in users : u.id # user.id} \cup {user}
         /\ nextUserId' = IF branch = "create" THEN nextUserId + 1 ELSE nextUserId
         /\ sessions' = sessions \cup {NewSession(user.id)}
         /\ nextSessionId' = nextSessionId + 1
         /\ nextToken' = nextToken + 1
         /\ last' = Op("googleAuth", input, TRUE, NoErr, {NewSession(user.id)},
                       branch = "create", googleAuthFound(input))
         /\ UNCHANGED chatVars /\ UNCHANGED msgVars /\ UNCHANGED <<conversations, now, nextConvId, loggedOut>>

(* ---------------- createConversation ---------------- *)
\* variant: the is_active check left out
createConversationErrorNoActiveCheck(input) ==
    IF {u \in users : u.id = input.user_id} = {} THEN ErrNoUser ELSE NoErr

createConversationError(input) ==
    LET existingUser == {u \in users : u.id = input.user_id} IN
    IF existingUser = {} THEN ErrNoUser
    ELSE IF ~TheRow(existingUser).is_active THEN ErrNotActive
    ELSE NoErr

createConversation(input) ==
    LET err == createConversationError(input)
        existingUser == {u \in users : u.id = input.user_id}
        row == [id |-> nextConvId, user_id |-> input.user_id, title |-> input.title,
                created_at |-> now, updated_at |-> now]
    IN
    IF err # NoErr
    THEN /\ last' = Op("createConversation", input, FALSE, err, {}, FALSE, existingUser)
         /\ UNCHANGED chatVars /\ UNCHANGED msgVars /\ UNCHANGED <<users, sessions, conversations, now, nextUserId,
                        nextSessionId, nextConvId, nextToken, loggedOut>>
    ELSE /\ nextConvId <= MaxConvs
         /\ conversations' = conversations \cup {row}
         /\ nextConvId' = nextConvId + 1
         /\ last' = Op("createConversation", input, TRUE, NoErr, {row}, FALSE,
                       existingUser)
         /\ UNCHANGED chatVars /\ UNCHANGED msgVars /\ UNCHANGED <<users, sessions, now, nextUserId,
                        nextSessionId, nextToken, loggedOut>>

(* ---------------- clock ---------------- *)
Tick ==
    /\ now < MaxTicks * TickMs
    /\ now' = now + TickMs
    /\ last' = Op("tick", [x |-> 0], TRUE, NoErr, {}, FALSE, {})
    /\ UNCHANGED chatVars /\ UNCHANGED msgVars /\ UNCHANGED <<users, sessions, conversations, nextUserId,
                   nextSessionId, nextConvId, nextToken, loggedOut>>

(* ---------------- results that are lists ---------------- *)
\* the record of a call that returned the array `list`
OpList(name, arg, list) ==
    [op |-> name, arg |-> arg, ok |-> TRUE, err |-> NoErr, rows |-> {},
     flag |-> FALSE, old |-> {}, list |-> list]

\* the elements of a sequence
Range(seq) == {seq[i] : i \in DOMAIN seq}

\* every order in which the database may hand out the rows of a set
Orderings(rows) ==
    {seq \in [1..Cardinality(rows) -> rows] : Range(seq) = rows}

\* variant: ORDER BY updated_at ASC
OrderByUpdatedAsc(rows) ==
    {seq \in Orderings(rows) :
        \A i, j \in DOMAIN seq : i < j => seq[i].updated_at <= seq[j].updated_at}

\* ORDER BY updated_at DESC: rows with one updated_at come in any order
OrderByUpdatedDesc(rows) ==
    {seq \in Orderings(rows) :
        \A i, j \in DOMAIN seq : i < j => seq[i].updated_at >= seq[j].updated_at}

(* ---------------- getConversations ---------------- *)
getConversations(userId) ==
    \E results \in OrderByUpdatedDesc({c \in conversations : c.user_id = userId}) :
        /\ last' = OpList("getConversations", [user_id |-> userId], results)
        /\ UNCHANGED chatVars /\ UNCHANGED msgVars
        /\ UNCHANGED <<users, sessions, conversations, now, nextUserId,
                       nextSessionId, nextConvId, nextToken, loggedOut>>

(* ---------------- updateConversation ---------------- *)
ErrNotFoundOrDenied == "Conversation not found or access denied"

\* input.title when the caller supplied none
Undefined == <<"<undefined>">>

\* variant: the conversation looked up by id alone
existingConversationById(id, userId) ==
    {c \in conversations : c.id = id}

\* the rows with the given id that belong to the given user
existingConversation(id, userId) ==
    {c \in conversations : c.id = id /\ c.user_id = userId}

\* variant: updated_at refreshed only together with a title
updateValuesTitleOnly(c, input) ==
    IF input.title # Undefined
    THEN [c EXCEPT !.updated_at = now, !.title = input.title]
    ELSE c

\* the row after SET updateValues
updateValues(c, input) ==
    IF input.title # Undefined
    THEN [c EXCEPT !.updated_at = now, !.title = input.title]
    ELSE [c EXCEPT !.updated_at = now]

updateConversation(input, userId) ==
    LET found == existingConversation(input.id, userId)
        arg == [id |-> input.id, title |-> input.title, user_id |-> userId]
    IN
    IF found = {}
    THEN /\ last' = Op("updateConversation", arg, FALSE, ErrNotFoundOrDenied, {},
                       FALSE, {})
         /\ UNCHANGED chatVars /\ UNCHANGED msgVars
         /\ UNCHANGED <<users, sessions, conversations, now, nextUserId,
                        nextSessionId, nextConvId, nextToken, loggedOut>>
    ELSE LET result == {updateValues(c, input) : c \in found} IN
         /\ conversations' = (conversations \ found) \cup result
         /\ last' = Op("updateConversation", arg, TRUE, NoErr, {TheRow(result)},
                       FALSE, found)
         /\ UNCHANGED chatVars /\ UNCHANGED msgVars
         /\ UNCHANGED <<users, sessions, now, nextUserId,
                        nextSessionId, nextConvId, nextToken, loggedOut>>

(* ---------------- deleteConversation ---------------- *)
\* variant: DELETE ... WHERE id = conversationId
deletedConversationsById(conversationId, userId) ==
    {c \in conversations : c.id = conversationId}

\* the rows DELETE ... WHERE id = conversationId AND user_id = userId removes
deletedConversations(conversationId, userId) ==
    {c \in conversations : c.id = conversationId /\ c.user_id = userId}

\* messages.conversation_id REFERENCES conversations(id) ON DELETE CASCADE
cascadeMessages(convs) ==
    {m \in messages : m.conversation_id \in {c.id : c \in convs}}

\* variant: research_sources.message_id without ON DELETE CASCADE
cascadeSourcesNone(msgs) == {}

\* research_sources.message_id REFERENCES messages(id) ON DELETE CASCADE
cascadeSources(msgs) ==
    {s \in researchSources : s.message_id \in {m.id : m \in msgs}}

deleteConversation(conversationId, userId) ==
    LET gone == deletedConversations(conversationId, userId)
        goneMessages == cascadeMessages(gone)
    IN
    /\ conversations' = conversations \ gone
    /\ messages' = messages \ goneMessages
    /\ researchSources' = researchSources \ cascadeSources(goneMessages)
    /\ last' = Op("deleteConversation", [id |-> conversationId, user_id |-> userId],
                  TRUE, NoErr, {}, Cardinality(gone) > 0, gone)
    /\ UNCHANGED chatVars
    /\ UNCHANGED <<users, sessions, now, nextUserId, nextSessionId, nextConvId,
                   nextMsgId, nextSourceId, nextToken, loggedOut>>

(* ---------------- createMessage ---------------- *)
\* the values of the optional, nullable `sources` field: left out, null, or an
\* array of citations
SourcesUndefined == [kind |-> "undefined", items |-> <<>>]
SourcesNull == [kind |-> "null", items |-> <<>>]
SourcesArray(items) == [kind |-> "array", items |-> items]

\* a citation object {title, url, snippet}
Citation == [title |-> "Doc", url |-> "https://example.com", snippet |-> "text"]

\* variant: an empty array taken for no sources
SourcesOrNullEmptyAsNull(sources) ==
    IF sources.kind = "array" /\ Len(sources.items) > 0 THEN sources ELSE SourcesNull

\* `input.sources || null`: every array is truthy, the empty one too
SourcesOrNull(sources) ==
    IF sources.kind = "array" THEN sources ELSE SourcesNull

ErrConversationNotFound(id) == "Conversation with id " \o ToString(id) \o " not found"

createMessage(input) ==
    LET conversation == {c \in conversations : c.id = input.conversation_id}
        message == [id |-> nextMsgId, conversation_id |-> input.conversation_id,
                    content |-> input.content, role |-> input.role,
                    sources |-> SourcesOrNull(input.sources), created_at |-> now]
    IN
    IF conversation = {}
    THEN /\ last' = Op("createMessage", input, FALSE,
                       ErrConversationNotFound(input.conversation_id), {}, FALSE, {})
         /\ UNCHANGED chatVars /\ UNCHANGED msgVars
         /\ UNCHANGED <<users, sessions, conversations, now, nextUserId,
                        nextSessionId, nextConvId, nextToken, loggedOut>>
    ELSE /\ nextMsgId <= MaxMsgs
         /\ messages' = messages \cup {message}
         /\ nextMsgId' = nextMsgId + 1
         /\ last' = Op("createMessage", input, TRUE, NoErr, {message}, FALSE,
                       conversation)
         /\ UNCHANGED chatVars
         /\ UNCHANGED <<users, sessions, conversations, researchSources, now,
                        nextUserId, nextSessionId, nextConvId, nextSourceId,
                        nextToken, loggedOut>>

(* ---------------- rows of research_sources ---------------- *)
ErrForeignKey == "violates foreign key constraint"

\* db.insert(researchSourcesTable): refused by the foreign key when no message
\* has the given id
insertResearchSource(messageId) ==
    LET source == [id |-> nextSourceId, message_id |-> messageId,
                   title |-> "Test Source"]
    IN
    IF {m \in messages : m.id = messageId} = {}
    THEN /\ last' = Op("insertResearchSource", [message_id |-> messageId], FALSE,
                       ErrForeignKey, {}, FALSE, {})
         /\ UNCHANGED chatVars /\ UNCHANGED msgVars
         /\ UNCHANGED <<users, sessions, conversations, now, nextUserId,
                        nextSessionId, nextConvId, nextToken, loggedOut>>
    ELSE /\ nextSourceId <= MaxSources
         /\ researchSources' = researchSources \cup {source}
         /\ nextSourceId' = nextSourceId + 1
         /\ last' = Op("insertResearchSource", [message_id |-> messageId], TRUE,
                       NoErr, {source}, FALSE, {})
         /\ UNCHANGED chatVars
         /\ UNCHANGED <<users, sessions, conversations, messages, now,
                        nextUserId, nextSessionId, nextConvId, nextMsgId,
                        nextToken, loggedOut>>

(* ---------------- searchConversations ---------------- *)
\* String.prototype.toLowerCase on one character of the texts used here
toLowerCase(ch) ==
    CASE ch = "A" -> "a"
      [] ch = "B" -> "b"
      [] ch = "C" -> "c"
      [] OTHER -> ch

\* variant: the query used as typed
trimNothing(s) == s

RECURSIVE trimStart(_)
trimStart(s) ==
    IF s # <<>> /\ Head(s) = " " THEN trimStart(Tail(s)) ELSE s

RECURSIVE trimEnd(_)
trimEnd(s) ==
    IF s # <<>> /\ s[Len(s)] = " " THEN trimEnd(SubSeq(s, 1, Len(s) - 1)) ELSE s

\* String.prototype.trim
trim(s) == trimEnd(trimStart(s))

\* `%${query.trim()}%`
searchPattern(query) == <<"%">> \o trim(query) \o <<"%">>

\* text ILIKE pattern: % stands for any run of characters, _ for any one
\* character, every other character for itself in either case (the texts and
\* queries used here hold no backslash, the escape character of LIKE)
RECURSIVE ilike(_, _)
ilike(text, pattern) ==
    IF pattern = <<>> THEN text = <<>>
    ELSE IF Head(pattern) = "%"
         THEN \/ ilike(text, Tail(pattern))
              \/ text # <<>> /\ ilike(Tail(text), pattern)
    ELSE IF text = <<>> THEN FALSE
    ELSE IF Head(pattern) = "_" THEN ilike(Tail(text), Tail(pattern))
    ELSE /\ toLowerCase(Head(text)) = toLowerCase(Head(pattern))
         /\ ilike(Tail(text), Tail(pattern))

\* the conversations of the user whose title matches
titleMatches(userId, pattern) ==
    {c \in conversations : c.user_id = userId /\ ilike(c.title, pattern)}

\* variant: the join without the user_id condition
messageMatchesAnyUser(userId, pattern) ==
    {cm \in conversations \X messages :
        /\ cm[1].id = cm[2].conversation_id
        /\ ilike(cm[2].content, pattern)}

\* the rows of conversations INNER JOIN messages that pass the WHERE clause
messageMatches(userId, pattern) ==
    {cm \in conversations \X messages :
        /\ cm[1].id = cm[2].conversation_id
        /\ cm[1].user_id = userId
        /\ ilike(cm[2].content, pattern)}

\* variant: every match kept
allMatchesKept(allMatches) == allMatches

\* the values of the Map filled by uniqueConversations.set(conversation.id,
\* conversation) in the order of allMatches: a key stays where it was first set
RECURSIVE uniqueConversations(_)
uniqueConversations(allMatches) ==
    IF allMatches = <<>> THEN <<>>
    ELSE LET n == Len(allMatches)
             conversation == allMatches[n]
             before == uniqueConversations(SubSeq(allMatches, 1, n - 1))
         IN IF \E k \in DOMAIN before : before[k].id = conversation.id
            THEN [k \in DOMAIN before |->
                    IF before[k].id = conversation.id THEN conversation ELSE before[k]]
            ELSE Append(before, conversation)

\* results.sort((a, b) => b.updated_at - a.updated_at): a stable sort, equal
\* update times keep their order
RECURSIVE sortByUpdatedDesc(_)
sortByUpdatedDesc(results) ==
    IF results = <<>> THEN <<>>
    ELSE LET n == Len(results)
             x == results[n]
             sorted == sortByUpdatedDesc(SubSeq(results, 1, n - 1))
             p == Cardinality({k \in DOMAIN sorted : sorted[k].updated_at >= x.updated_at})
         IN SubSeq(sorted, 1, p) \o <<x>> \o SubSeq(sorted, p + 1, Len(sorted))

searchConversations(userId, query) ==
    LET arg == [user_id |-> userId, query |-> query] IN
    /\ IF trim(query) = <<>>
       THEN last' = OpList("searchConversations", arg, <<>>)
       ELSE \E byTitle \in Orderings(titleMatches(userId, searchPattern(query))),
               byMessage \in Orderings(messageMatches(userId, searchPattern(query))) :
               LET allMatches == byTitle \o [k \in DOMAIN byMessage |-> byMessage[k][1]]
               IN last' = OpList("searchConversations", arg,
                                 sortByUpdatedDesc(uniqueConversations(allMatches)))
    /\ UNCHANGED chatVars /\ UNCHANGED msgVars
    /\ UNCHANGED <<users, sessions, conversations, now, nextUserId,
                   nextSessionId, nextConvId, nextToken, loggedOut>>

(* ---------------- getConversationMessages ---------------- *)
\* variant: ORDER BY created_at DESC
OrderByCreatedDesc(rows) ==
    {seq \in Orderings(rows) :
        \A i, j \in DOMAIN seq : i < j => seq[i].created_at >= seq[j].created_at}

\* ORDER BY created_at ASC: rows with one created_at come in any order
OrderByCreatedAsc(rows) ==
    {seq \in Orderings(rows) :
        \A i, j \in DOMAIN seq : i < j => seq[i].created_at <= seq[j].created_at}

getConversationMessages(conversationId) ==
    \E results \in OrderByCreatedAsc({m \in messages : m.conversation_id = conversationId}) :
        /\ last' = OpList("getConversationMessages", [id |-> conversationId], results)
        /\ UNCHANGED chatVars /\ UNCHANGED msgVars
        /\ UNCHANGED <<users, sessions, conversations, now, nextUserId,
                       nextSessionId, nextConvId, nextToken, loggedOut>>

(* ---------------- aiChatResearch ---------------- *)
ErrChatNotFound == "Conversation not found"
ErrDatabase == "Connection terminated unexpectedly"

\* a call that runs in several statements: the statement it is at, its input,
\* the id of the user message it wrote (0: none yet), what it returned and the
\* error it threw
Call(op, pc, input, userMsgId, rows, err) ==
    [op |-> op, pc |-> pc, input |-> input, userMsgId |-> userMsgId,
     rows |-> rows, err |-> err]

\* variant: the join without the WHERE clause
chatConversationAny(input) ==
    {cu \in conversations \X users : cu[1].user_id = cu[2].id}

\* conversations INNER JOIN users WHERE conversations.id = input.conversation_id
chatConversation(input) ==
    {cu \in conversations \X users :
        cu[1].user_id = cu[2].id /\ cu[1].id = input.conversation_id}

ResearchResult1 ==
    [title |-> "Research Result 1", url |-> "https://example.com/research1",
     snippet |-> "Relevant information"]
ResearchResult2 ==
    [title |-> "Research Result 2", url |-> "https://example.com/research2",
     snippet |-> "Additional context"]

\* variant: sources attached whether research is enabled or not
chatResearchSourcesAlways(input) == SourcesArray(<<ResearchResult1, ResearchResult2>>)

\* the simulated research: two sources when enabled, null otherwise
chatResearchSources(input) ==
    IF input.enable_research
    THEN SourcesArray(<<ResearchResult1, ResearchResult2>>)
    ELSE SourcesNull

\* the reply text, which quotes the message and differs with research
responseContent(input) ==
    (IF input.enable_research THEN <<"R", ":">> ELSE <<"A", ":">>) \o input.message

\* the row of the first insert
chatUserMessage(input) ==
    [id |-> nextMsgId, conversation_id |-> input.conversation_id,
     content |-> input.message, role |-> "user", sources |-> SourcesNull,
     created_at |-> now]

\* variant: the second insert written with the role of the first
chatAssistantMessageAsUser(input) ==
    [id |-> nextMsgId, conversation_id |-> input.conversation_id,
     content |-> responseContent(input), role |-> "user",
     sources |-> chatResearchSources(input), created_at |-> now]

\* the row of the second insert
chatAssistantMessage(input) ==
    [id |-> nextMsgId, conversation_id |-> input.conversation_id,
     content |-> responseContent(input), role |-> "assistant",
     sources |-> chatResearchSources(input), created_at |-> now]

\* variant: a catch block that takes the user message back
messagesRolledBack(call) == {m \in messages : m.id # call.userMsgId}

\* the messages after the catch block, which logs and rethrows
messagesAfterCatch(call) == messages

\* the arguments of a call together with its place in `calls`
CallArg(k) ==
    [call |-> k, conversation_id |-> calls[k].input.conversation_id,
     message |-> calls[k].input.message,
     enable_research |-> calls[k].input.enable_research]

\* statement 1: the conversation is looked up
aiChatResearch(input) ==
    LET found == chatConversation(input)
        k == Len(calls) + 1
    IN
    /\ Len(calls) < MaxCalls
    /\ calls' = Append(calls,
                   IF found = {}
                   THEN Call("aiChatResearch", "failed", input, 0, {}, ErrChatNotFound)
                   ELSE Call("aiChatResearch", "insertUser", input, 0, {}, NoErr))
    /\ last' = Op("aiChatResearch", [call |-> k,
                     conversation_id |-> input.conversation_id,
                     message |-> input.message,
                     enable_research |-> input.enable_research],
                  found # {}, IF found = {} THEN ErrChatNotFound ELSE NoErr,
                  {}, FALSE, {})
    /\ UNCHANGED ui /\ UNCHANGED msgVars
    /\ UNCHANGED <<users, sessions, conversations, now, nextUserId,
                   nextSessionId, nextConvId, nextToken, loggedOut>>

\* statement 2: the user message is inserted, unless the foreign key refuses it
aiChatInsertUser(k) ==
    LET call == calls[k]
        parent == {c \in conversations : c.id = call.input.conversation_id}
        message == chatUserMessage(call.input)
    IN
    /\ call.op = "aiChatResearch" /\ call.pc = "insertUser"
    /\ IF parent = {}
       THEN /\ calls' = [calls EXCEPT ![k].pc = "failed", ![k].err = ErrForeignKey]
            /\ last' = Op("aiChatInsertUser", CallArg(k), FALSE, ErrForeignKey, {},
                          FALSE, {})
            /\ UNCHANGED msgVars
       ELSE /\ nextMsgId <= MaxChatMsgs
            /\ messages' = messages \cup {message}
            /\ nextMsgId' = nextMsgId + 1
            /\ calls' = [calls EXCEPT ![k].pc = "insertAssistant",
                                      ![k].userMsgId = message.id]
            /\ last' = Op("aiChatInsertUser", CallArg(k), TRUE, NoErr, {message},
                          FALSE, {})
            /\ UNCHANGED <<researchSources, nextSourceId>>
    /\ UNCHANGED ui
    /\ UNCHANGED <<users, sessions, conversations, now, nextUserId,
                   nextSessionId, nextConvId, nextToken, loggedOut>>

\* statement 3: the assistant message is inserted and returned; the insert
\* throws when the foreign key refuses it or the database fails (dbError)
aiChatInsertAssistant(k, dbError) ==
    LET call == calls[k]
        parent == {c \in conversations : c.id = call.input.conversation_id}
        message == chatAssistantMessage(call.input)
        err == IF parent = {} THEN ErrForeignKey ELSE ErrDatabase
    IN
    /\ call.op = "aiChatResearch" /\ call.pc = "insertAssistant"
    /\ IF parent = {} \/ dbError
       THEN /\ calls' = [calls EXCEPT ![k].pc = "failed", ![k].err = err]
            /\ messages' = messagesAfterCatch(call)
            /\ last' = Op("aiChatInsertAssistant", CallArg(k), FALSE, err, {},
                          FALSE, {})
            /\ UNCHANGED <<researchSources, nextMsgId, nextSourceId>>
       ELSE /\ nextMsgId <= MaxChatMsgs
            /\ messages' = messages \cup {message}
            /\ nextMsgId' = nextMsgId + 1
            /\ calls' = [calls EXCEPT ![k].pc = "done", ![k].rows = {message}]
            /\ last' = Op("aiChatInsertAssistant", CallArg(k), TRUE, NoErr,
                          {message}, FALSE, {})
            /\ UNCHANGED <<researchSources, nextSourceId>>
    /\ UNCHANGED ui
    /\ UNCHANGED <<users, sessions, conversations, now, nextUserId,
                   nextSessionId, nextConvId, nextToken, loggedOut>>

(* ---------------- createUser, statement by statement ---------------- *)
\* statement 1: the users with the email of the input are looked up
createUserLookup(input) ==
    LET existingUsers == {u \in users : u.email = input.email}
        k == Len(calls) + 1
    IN
    /\ Len(calls) < MaxCalls
    /\ calls' = Append(calls,
                   IF existingUsers # {}
                   THEN Call("createUser", "failed", input, 0, {}, ErrExists)
                   ELSE Call("createUser", "insert", input, 0, {}, NoErr))
    /\ last' = Op("createUserLookup", [call |-> k, email |-> input.email],
                  existingUsers = {}, IF existingUsers # {} THEN ErrExists ELSE NoErr,
                  {}, FALSE, existingUsers)
    /\ UNCHANGED ui /\ UNCHANGED msgVars
    /\ UNCHANGED <<users, sessions, conversations, now, nextUserId,
                   nextSessionId, nextConvId, nextToken, loggedOut>>

\* statement 2: the row is inserted, unless a UNIQUE constraint refuses it;
\* the error of the database is rethrown as it is
createUserInsert(k, salt) ==
    LET call == calls[k]
        row == NewUserRow(call.input, salt)
        arg == [call |-> k, email |-> call.input.email]
    IN
    /\ call.op = "createUser" /\ call.pc = "insert"
    /\ IF UsersUniqueViolation(row)
       THEN /\ calls' = [calls EXCEPT ![k].pc = "failed", ![k].err = ErrUnique]
            /\ last' = Op("createUserInsert", arg, FALSE, ErrUnique, {}, FALSE, {})
            /\ UNCHANGED <<users, nextUserId>>
       ELSE /\ nextUserId <= MaxUsers
            /\ users' = users \cup {row}
            /\ nextUserId' = nextUserId + 1
            /\ calls' = [calls EXCEPT ![k].pc = "done", ![k].rows = {row}]
            /\ last' = Op("createUserInsert", arg, TRUE, NoErr, {row}, FALSE, {})
    /\ UNCHANGED ui /\ UNCHANGED msgVars
    /\ UNCHANGED <<sessions, conversations, now, nextSessionId, nextConvId,
                   nextToken, loggedOut>>

(* ---------------- ChatInterface ---------------- *)
\* the user the page was opened for
UiUserId == 1

\* startNewConversation: a conversation is created and shown empty; a failure
\* is logged and leaves the page as it was
startNewConversation ==
    LET input == [user_id |-> UiUserId, title |-> <<"N", "e", "w">>]
        row == [id |-> nextConvId, user_id |-> input.user_id, title |-> input.title,
                created_at |-> now, updated_at |-> now]
    IN
    IF createConversationError(input) # NoErr
    THEN /\ last' = Op("startNewConversation", input, FALSE,
                       createConversationError(input), {}, FALSE, {})
         /\ UNCHANGED chatVars /\ UNCHANGED msgVars
         /\ UNCHANGED <<users, sessions, conversations, now, nextUserId,
                        nextSessionId, nextConvId, nextToken, loggedOut>>
    ELSE /\ nextConvId <= MaxConvs
         /\ conversations' = conversations \cup {row}
         /\ nextConvId' = nextConvId + 1
         /\ ui' = [conversation |-> row.id, messages |-> <<>>]
         /\ last' = Op("startNewConversation", input, TRUE, NoErr, {row}, FALSE, {})
         /\ UNCHANGED calls /\ UNCHANGED msgVars
         /\ UNCHANGED <<users, sessions, now, nextUserId,
                        nextSessionId, nextToken, loggedOut>>

\* sendMessage, run from its first to its last statement: a blank input
\* returns at once; a conversation is created when none is shown; then
\* createMessage and aiChatResearch are called one after the other and their
\* two results are appended to the messages shown. `flag` tells whether both
\* calls returned.
sendMessage(inputMessage, enableResearch) ==
    LET arg == [message |-> inputMessage, enable_research |-> enableResearch]
        create == ui.conversation = 0
        newConv == [id |-> nextConvId, user_id |-> UiUserId, title |-> inputMessage,
                    created_at |-> now, updated_at |-> now]
        convId == IF create THEN nextConvId ELSE ui.conversation
        convs == IF create THEN conversations \cup {newConv} ELSE conversations
        request == [conversation_id |-> convId, message |-> inputMessage,
                    enable_research |-> enableResearch]
        createdUserMessage ==
            [id |-> nextMsgId, conversation_id |-> convId, content |-> inputMessage,
             role |-> "user", sources |-> SourcesOrNull(SourcesUndefined),
             created_at |-> now]
        chatUser == [chatUserMessage(request) EXCEPT !.id = nextMsgId + 1]
        aiResponse == [chatAssistantMessage(request) EXCEPT !.id = nextMsgId + 2]
    IN
    IF trim(inputMessage) = <<>>
    THEN /\ last' = Op("sendMessage", arg, TRUE, NoErr, {}, FALSE, {})
         /\ UNCHANGED chatVars /\ UNCHANGED msgVars
         /\ UNCHANGED <<users, sessions, conversations, now, nextUserId,
                        nextSessionId, nextConvId, nextToken, loggedOut>>
    ELSE IF create /\ createConversationError([user_id |-> UiUserId,
                                               title |-> inputMessage]) # NoErr
    THEN /\ last' = Op("sendMessage", arg, TRUE, NoErr, {}, FALSE, {})
         /\ UNCHANGED chatVars /\ UNCHANGED msgVars
         /\ UNCHANGED <<users, sessions, conversations, now, nextUserId,
                        nextSessionId, nextConvId, nextToken, loggedOut>>
    ELSE /\ create => nextConvId <= MaxConvs
         /\ conversations' = convs
         /\ nextConvId' = IF create THEN nextConvId + 1 ELSE nextConvId
         /\ IF {c \in convs : c.id = convId} = {}
            THEN \* createMessage throws: the temporary message is taken back
                 /\ ui' = [ui EXCEPT !.conversation = convId]
                 /\ last' = Op("sendMessage", arg, TRUE, NoErr, {}, FALSE, {})
                 /\ UNCHANGED msgVars
            ELSE /\ nextMsgId + 2 <= MaxUiMsgs
                 /\ messages' = messages \cup {createdUserMessage, chatUser, aiResponse}
                 /\ nextMsgId' = nextMsgId + 3
                 /\ ui' = [conversation |-> convId,
                           messages |-> ui.messages \o <<createdUserMessage, aiResponse>>]
                 /\ last' = Op("sendMessage", arg, TRUE, NoErr,
                               {createdUserMessage, aiResponse}, TRUE, {})
                 /\ UNCHANGED <<researchSources, nextSourceId>>
         /\ UNCHANGED calls
         /\ UNCHANGED <<users, sessions, now, nextUserId,
                        nextSessionId, nextToken, loggedOut>>

(* ---------------- inputs ---------------- *)
CreateUserInputs ==
    { [email |-> e, password |-> p, display_name |-> "Ann",
       avatar_url |-> NULL, google_id |-> g] :
        e \in Emails, p \in Passwords \cup {NULL}, g \in {NULL, "g-1"} }

GoogleAuthInputs ==
    { [google_id |-> g, email |-> e, display_name |-> pr[1], avatar_url |-> pr[2]] :
        g \in GoogleIds, e \in Emails, pr \in Profiles }

\* the sign-ins of profiles without avatar
GoogleSignIns == {input \in GoogleAuthInputs : input.avatar_url = NULL}

\* registrations without a Google id
PlainSignUps ==
    {input \in CreateUserInputs : input.google_id = NULL /\ input.password # "password2"}

\* tokens a caller may present: 0 is the empty string, MaxSessions + 2 was never issued
TokenInputs == 0..(MaxSessions + 2)

(* ---------------- the session service ---------------- *)
Next ==
    \/ \E t \in TokenInputs : validateSession(t)
    \/ \E t \in TokenInputs : logoutUser(t)
    \/ \E e \in Emails, p \in Passwords : loginUser(e, p)
    \/ \E input \in GoogleSignIns : googleAuth(input)
    \/ Tick

Spec == Init /\ [][Next]_vars

(* ---------------- the user registry ---------------- *)
NextUsers ==
    \/ \E input \in CreateUserInputs, salt \in Salts : createUser(input, salt)
    \/ \E input \in GoogleAuthInputs : googleAuth(input)
    \/ \E e \in Emails, p \in Passwords : loginUser(e, p)

SpecUsers == InitUsers /\ [][NextUsers]_vars

(* ---------------- the conversation service ---------------- *)
NextConv ==
    \/ \E u \in 0..(MaxUsers + 1), t \in Titles :
          createConversation([user_id |-> u, title |-> t])
    \/ \E input \in PlainSignUps : createUser(input, "5a17")
    \/ Tick

SpecConv == InitUsers /\ [][NextConv]_vars

(* ---------------- conversation management ---------------- *)
\* the two active users the conversation tests start from
TestUserRows ==
    { [id |-> i, email |-> (IF i = 1 THEN "a@x.com" ELSE "b@x.com"), password_hash |-> "hash123",
       display_name |-> "Test User", avatar_url |-> NULL, google_id |-> NULL,
       is_active |-> TRUE, updated_at |-> 0] : i \in 1..2 }

InitChat == InitDb(TestUserRows, {})

\* user ids a caller may pass: the last one belongs to nobody
UserIdInputs == 1..3

\* conversation ids a caller may pass: the last one was never issued
ConvIdInputs == 1..(MaxConvs + 1)

\* the titles an update may carry: none, the empty string, a new title
UpdateTitles == {Undefined, <<>>, <<"c">>}

NextManage ==
    \/ createConversation([user_id |-> 1, title |-> <<"A", "b">>])
    \/ \E id \in ConvIdInputs, t \in UpdateTitles, u \in 1..2 :
          updateConversation([id |-> id, title |-> t], u)
    \/ Tick

SpecManage == InitChat /\ [][NextManage]_vars

(* ---------------- conversation lists ---------------- *)
NextList ==
    \/ \E u \in 1..2 : createConversation([user_id |-> u, title |-> <<"A", "b">>])
    \/ \E id \in ConvIdInputs, u \in 1..2 :
          updateConversation([id |-> id, title |-> Undefined], u)
    \/ \E u \in UserIdInputs : getConversations(u)
    \/ Tick

SpecList == InitChat /\ [][NextList]_vars

(* ---------------- conversations with their messages ---------------- *)
\* message ids a caller may pass: the last one was never issued
MsgIdInputs == 1..(MaxMsgs + 1)

\* the `sources` a caller may pass to createMessage
SourcesInputs ==
    {SourcesUndefined, SourcesNull, SourcesArray(<<>>), SourcesArray(<<Citation>>)}

CreateMessageInputs ==
    { [conversation_id |-> id, content |-> <<"h", "i">>, role |-> r, sources |-> src] :
        id \in ConvIdInputs, r \in {"user", "assistant"}, src \in SourcesInputs }

NextMsg ==
    \/ \E u \in 1..2 : createConversation([user_id |-> u, title |-> <<"A", "b">>])
    \/ \E id \in ConvIdInputs :
          createMessage([conversation_id |-> id, content |-> <<"h", "i">>,
                         role |-> "user", sources |-> SourcesUndefined])
    \/ \E m \in MsgIdInputs : insertResearchSource(m)
    \/ \E id \in ConvIdInputs, u \in 1..2 : deleteConversation(id, u)

SpecMsg == InitChat /\ [][NextMsg]_vars

(* ---------------- access to the conversations of others ---------------- *)
NextAccess ==
    \/ \E u \in 1..2 : createConversation([user_id |-> u, title |-> <<"A", "b">>])
    \/ \E id \in ConvIdInputs :
          createMessage([conversation_id |-> id, content |-> <<"h", "i">>,
                         role |-> "user", sources |-> SourcesUndefined])
    \/ \E id \in ConvIdInputs, u \in 1..2 :
          updateConversation([id |-> id, title |-> <<>>], u)
    \/ \E id \in ConvIdInputs, u \in 1..2 : deleteConversation(id, u)

SpecAccess == InitChat /\ [][NextAccess]_vars

(* ---------------- the message store ---------------- *)
NextStore ==
    \/ \E u \in 1..2 : createConversation([user_id |-> u, title |-> <<"A", "b">>])
    \/ \E input \in CreateMessageInputs : createMessage(input)

SpecStore == InitChat /\ [][NextStore]_vars

(* ---------------- search ---------------- *)
\* the queries a caller may type: empty, blank, a word in another case with a
\* blank after it, a word, and a wildcard of LIKE
Queries == {<<>>, <<" ">>, <<"B", " ">>, <<"c">>, <<"_">>}

\* each user opens conversations under one title
SearchConversationInputs ==
    {[user_id |-> 1, title |-> <<"A", "b">>], [user_id |-> 2, title |-> <<"c">>]}

NextSearch ==
    \/ \E input \in SearchConversationInputs : createConversation(input)
    \/ \E id \in ConvIdInputs :
          \* the search reads no time of a message: all are written at the end
          /\ now = MaxTicks * TickMs
          /\ createMessage([conversation_id |-> id, content |-> <<"b", " ", "c">>,
                            role |-> "user", sources |-> SourcesUndefined])
    \/ \E u \in 1..2, q \in Queries : searchConversations(u, q)
    \/ Tick

SpecSearch == InitChat /\ [][NextSearch]_vars

(* ---------------- reading a conversation ---------------- *)
\* a question without sources and an answer with a citation
ReadMessageInputs ==
    { [conversation_id |-> id, content |-> <<"h", "i">>, role |-> rs[1], sources |-> rs[2]] :
        id \in ConvIdInputs,
        rs \in {<<"user", SourcesUndefined>>, <<"assistant", SourcesArray(<<Citation>>)>>} }

NextRead ==
    \* reading depends on no time of a conversation: all are opened at the start
    \/ now = 0 /\ createConversation([user_id |-> 1, title |-> <<"A", "b">>])
    \/ \E input \in ReadMessageInputs : createMessage(input)
    \/ \E id \in ConvIdInputs : getConversationMessages(id)
    \/ Tick

SpecRead == InitChat /\ [][NextRead]_vars

(* ---------------- the AI chat ---------------- *)
AiChatRequests ==
    { [conversation_id |-> id, message |-> <<"h", "i">>, enable_research |-> r] :
        id \in ConvIdInputs, r \in BOOLEAN }

NextChat ==
    \/ createConversation([user_id |-> 1, title |-> <<"A", "b">>])
    \/ \E input \in AiChatRequests : aiChatResearch(input)
    \/ \E k \in DOMAIN calls : aiChatInsertUser(k)
    \/ \E k \in DOMAIN calls : aiChatInsertAssistant(k, FALSE)

SpecChat == InitChat /\ [][NextChat]_vars

(* ---------------- messages for conversations that may not exist ---------------- *)
NextNotFound ==
    \/ createConversation([user_id |-> 1, title |-> <<"A", "b">>])
    \/ \E id \in ConvIdInputs :
          createMessage([conversation_id |-> id, content |-> <<"h", "i">>,
                         role |-> "user", sources |-> SourcesUndefined])
    \/ \E id \in ConvIdInputs :
          aiChatResearch([conversation_id |-> id, message |-> <<"h", "i">>,
                          enable_research |-> TRUE])
    \/ \E k \in DOMAIN calls : aiChatInsertUser(k)
    \/ \E k \in DOMAIN calls : aiChatInsertAssistant(k, FALSE)

SpecNotFound == InitChat /\ [][NextNotFound]_vars

(* ---------------- the AI chat with failures ---------------- *)
NextChatFail ==
    \/ createConversation([user_id |-> 1, title |-> <<"A", "b">>])
    \/ aiChatResearch([conversation_id |-> 1, message |-> <<"h", "i">>,
                       enable_research |-> TRUE])
    \/ \E k \in DOMAIN calls : aiChatInsertUser(k)
    \/ \E k \in DOMAIN calls, dbError \in BOOLEAN : aiChatInsertAssistant(k, dbError)
    \/ \E id \in ConvIdInputs : deleteConversation(id, 1)

SpecChatFail == InitChat /\ [][NextChatFail]_vars

(* ---------------- registrations at the same time ---------------- *)
NextSignUp ==
    \/ \E input \in PlainSignUps : createUserLookup(input)
    \/ \E k \in DOMAIN calls : createUserInsert(k, "5a17")

SpecSignUp == InitUsers /\ [][NextSignUp]_vars

(* ---------------- the chat page ---------------- *)
NextUi ==
    \/ startNewConversation
    \/ \E text \in {<<"h", "i">>, <<" ">>}, r \in BOOLEAN : sendMessage(text, r)
    \/ \E id \in ConvIdInputs : deleteConversation(id, UiUserId)
    \/ Tick

SpecUi == InitChat /\ [][NextUi]_vars

(* ======================= the session claims ======================= *)
Ids(rows) == {r.id : r \in rows}

SessionTokens(rows) == {r.session_token : r \in rows}

\* C1: validateSession(token) returns a user exactly when a session row with
\* that token exists whose expiry is strictly later than now and whose owner
\* is active; the user returned is that owner; otherwise it returns null, and
\* it never throws.
C1_ValidateSession ==
    last.op = "validateSession" =>
        LET live == {s \in sessions :
                        /\ s.session_token = last.arg.token
                        /\ ~(s.expires_at <= now)
                        /\ \E u \in users : u.id = s.user_id /\ u.is_active}
        IN /\ last.ok
           /\ (last.rows # {}) <=> (live # {})
           /\ Cardinality(last.rows) <= 1
           /\ \A u \in last.rows : u \in users /\ \E s \in live : s.user_id = u.id

\* a session of an active user that expires at exactly now is rejected
C1_Witness ==
    /\ last.op = "validateSession"
    /\ last.rows = {}
    /\ \E s \in sessions, u \in users :
          /\ s.session_token = last.arg.token
          /\ s.expires_at = now
          /\ u.id = s.user_id /\ u.is_active

\* C2: logoutUser(token) returns true exactly when a session with that token
\* existed at the call, whether expired or not, and removes that row; for any
\* other token it returns false without throwing; every other session row is
\* left as it was.
C2_Logout ==
    [][last'.op = "logoutUser" =>
         /\ last'.ok
         /\ last'.flag <=> (\E s \in sessions : s.session_token = last'.arg.token)
         /\ sessions' = {s \in sessions : s.session_token # last'.arg.token}
         /\ users' = users]_vars

\* an expired session was logged out while another session stayed
C2_Witness ==
    /\ last.op = "logoutUser"
    /\ last.flag
    /\ \E s \in last.old : s.expires_at < now
    /\ sessions # {}

\* C3: once logoutUser(token) has returned true, validateSession(token) returns
\* null in every later state.
C3_LoggedOutStaysInvalid ==
    \A t \in loggedOut : validateSessionResult(t) = {} /\ t \notin SessionTokens(sessions)

\* a login succeeded for a user after a token had been logged out
C3_Witness ==
    /\ loggedOut # {}
    /\ last.op \in {"loginUser", "googleAuth"}
    /\ last.ok
    /\ \E s \in last.rows : validateSessionResult(s.session_token) # {}

\* C4: loginUser fails with "invalid credentials" for an unknown email, with
\* "deactivated" for an inactive user, with "uses OAuth" for an active user
\* without password hash, and with "invalid credentials" when the password
\* does not match the stored one; the checks are made in this order.  On
\* every failure no session row is created and no user row is changed.
C4_LoginFailures ==
    [][last'.op = "loginUser" =>
         LET found == {u \in users : u.email = last'.arg.email} IN
         /\ found = {} => last'.err = ErrInvalid
         /\ \A u \in found :
              /\ ~u.is_active => last'.err = ErrDeactivated
              /\ u.is_active /\ u.password_hash = NULL => last'.err = ErrOAuth
              /\ u.is_active /\ u.password_hash # NULL
                   /\ u.password_hash # last'.arg.password => last'.err = ErrInvalid
         /\ last'.ok <=> last'.err = NoErr
         /\ last'.err \in {NoErr, ErrInvalid, ErrDeactivated, ErrOAuth}
         /\ ~last'.ok => sessions' = sessions /\ users' = users
                           /\ nextSessionId' = nextSessionId]_vars

\* an inactive user without password hash was refused as deactivated
C4_Witness ==
    /\ last.op = "loginUser"
    /\ last.err = ErrDeactivated
    /\ \E u \in last.old : u.password_hash = NULL
    /\ sessions # {}

\* C5: every successful loginUser or googleAuth call adds exactly one session
\* row, owned by the authenticated user, with a token no stored session has
\* and an expiry 24 hours after now; the sessions stored before stay as they
\* were.
C5_FreshSession ==
    [][last'.op \in {"loginUser", "googleAuth"} /\ last'.ok =>
         \E s \in sessions' :
            /\ s \notin sessions
            /\ sessions' = sessions \cup {s}
            /\ last'.rows = {s}
            /\ s.session_token \notin SessionTokens(sessions)
            /\ s.id \notin Ids(sessions)
            /\ s.expires_at = now + 86400000
            /\ s.created_at = now
            /\ IF last'.op = "loginUser"
               THEN \E u \in users : u.email = last'.arg.email /\ u.id = s.user_id
               ELSE \E u \in users' : u.google_id = last'.arg.google_id /\ u.id = s.user_id]_vars

\* a user holds two sessions that are both valid
C5_Witness ==
    /\ last.op \in {"loginUser", "googleAuth"}
    /\ last.ok
    /\ \E s1 \in sessions, s2 \in last.rows :
          /\ s1 # s2
          /\ s1.user_id = s2.user_id
          /\ validateSessionResult(s1.session_token) # {}
          /\ validateSessionResult(s2.session_token) # {}

(* ======================= the user registry claims ======================= *)
\* C6: googleAuth resolves the account to the user whose Google id equals the
\* given one if there is one; otherwise to the user whose email equals the
\* given one, who then gets the Google id and keeps the password hash;
\* otherwise to a new active user with that email, that Google id and a null
\* password hash.  A user row is added only in the last case, and the session
\* issued belongs to the resolved user.
C6_GoogleAuthResolution ==
    [][last'.op = "googleAuth" =>
         LET input == last'.arg
             byG == {u \in users : u.google_id = input.google_id}
             byE == {u \in users : u.email = input.email}
         IN
         /\ last'.ok
         /\ \E s \in sessions' \ sessions : \E r \in users' :
              /\ r.id = s.user_id
              /\ r.google_id = input.google_id
              /\ \A o \in users : o.id # r.id => o \in users'
              /\ byG # {} =>
                   /\ Ids(users') = Ids(users)
                   /\ \E o \in byG :
                        /\ r.id = o.id /\ r.email = o.email
                        /\ r.password_hash = o.password_hash
                        /\ r.is_active = o.is_active
              /\ byG = {} /\ byE # {} =>
                   /\ Ids(users') = Ids(users)
                   /\ \E o \in byE :
                        /\ r.id = o.id /\ r.email = input.email
                        /\ r.password_hash = o.password_hash
                        /\ r.is_active = o.is_active
              /\ byG = {} /\ byE = {} =>
                   /\ r.id \notin Ids(users)
                   /\ users' = users \cup {r}
                   /\ r.email = input.email
                   /\ r.password_hash = NULL
                   /\ r.is_active]_vars

\* the Google id belongs to one user and the email to another: the user with
\* the Google id was taken
C6_Witness ==
    /\ last.op = "googleAuth"
    /\ last.ok
    /\ \E s \in last.rows, u1 \in users, u2 \in users :
          /\ u1.id # u2.id
          /\ u1.google_id = last.arg.google_id
          /\ u2.email = last.arg.email
          /\ s.user_id = u1.id

\* C7: after a successful googleAuth call the display name and the avatar URL
\* stored for the resolved user equal the values supplied in the call, a null
\* avatar included.
C7_ProfileRefreshed ==
    last.op = "googleAuth" /\ last.ok =>
        /\ last.rows # {}
        /\ \A s \in last.rows : \E u \in users :
              /\ u.id = s.user_id
              /\ u.display_name = last.arg.display_name
              /\ u.avatar_url = last.arg.avatar_url

\* a returning user with an avatar signed in with the same name and a null avatar
C7_Witness ==
    /\ last.op = "googleAuth"
    /\ last.ok
    /\ last.arg.avatar_url = NULL
    /\ \E o \in last.old :
          /\ o.google_id = last.arg.google_id
          /\ o.display_name = last.arg.display_name
          /\ o.avatar_url # NULL

\* C8: createUser fails with "already exists" whenever a user with the given
\* email is registered, and then adds and changes no user row; in every state
\* no two users share an email.
C8_DuplicateEmail ==
    /\ [][last'.op = "createUser"
            /\ (\E u \in users : u.email = last'.arg.email) =>
               /\ ~last'.ok
               /\ last'.err = ErrExists
               /\ users' = users]_vars
    /\ [](\A u1 \in users, u2 \in users : u1.email = u2.email => u1 = u2)

\* a registration was refused for an email that googleAuth had registered
C8_Witness ==
    /\ last.op = "createUser"
    /\ last.err = ErrExists
    /\ \E o \in last.old : o.id # 1 /\ o.google_id # NULL /\ o.password_hash = NULL
    /\ Cardinality(users) = 2

\* the outputs pbkdf2Sync can give in the model
KdfOutputs == {pbkdf2Sync(q, s) : q \in Passwords, s \in Salts \cup {""}}

\* password_hash.split(':') as a set of pairs <<salt, hash>>
SplitHash(h) == {sk \in Salts \X KdfOutputs : sk[1] \o ":" \o sk[2] = h}

\* C9: the user a successful createUser call creates is active; with a
\* password the stored hash is not the password, has the form salt:hash,
\* the key derived from the password and the stored salt is the stored hash
\* and the key derived from another password is not; without a password the
\* stored hash is null.
C9_PasswordHash ==
    last.op = "createUser" /\ last.ok =>
        /\ last.rows # {}
        /\ \A r \in last.rows :
              /\ r \in users
              /\ r.is_active
              /\ IF last.arg.password = NULL
                 THEN r.password_hash = NULL
                 ELSE /\ r.password_hash # NULL
                      /\ r.password_hash # last.arg.password
                      /\ SplitHash(r.password_hash) # {}
                      /\ \A sk \in SplitHash(r.password_hash) :
                            /\ pbkdf2Sync(last.arg.password, sk[1]) = sk[2]
                            /\ \A q \in Passwords \ {last.arg.password} :
                                  pbkdf2Sync(q, sk[1]) # sk[2]

\* two users registered with one password hold different hashes
C9_Witness ==
    /\ last.op = "createUser"
    /\ last.ok
    /\ last.arg.password # NULL
    /\ \E r \in last.rows, u \in users :
          /\ u.id # r.id
          /\ u.password_hash # r.password_hash
          /\ \E s \in Salts : u.password_hash = HashPassword(last.arg.password, s)

(* ======================= the conversation claims ======================= *)
\* C10: createConversation fails when no user has the given id and when that
\* user is inactive, and then inserts nothing; otherwise it inserts exactly
\* one conversation, owned by the user, with the given title and an id no
\* stored conversation has, and leaves the stored conversations as they were.
C10_CreateConversation ==
    [][last'.op = "createConversation" =>
         LET input == last'.arg
             owner == {u \in users : u.id = input.user_id}
         IN
         /\ owner = {} => ~last'.ok /\ conversations' = conversations
         /\ \A u \in owner :
              IF ~u.is_active
              THEN ~last'.ok /\ conversations' = conversations
              ELSE /\ last'.ok
                   /\ \E c \in conversations' :
                        /\ c \notin conversations
                        /\ c.id \notin Ids(conversations)
                        /\ conversations' = conversations \cup {c}
                        /\ c.user_id = input.user_id
                        /\ c.title = input.title
                        /\ last'.rows = {c}]_vars

\* an inactive user was refused while conversations of another user are stored
C10_Witness ==
    /\ last.op = "createConversation"
    /\ ~last.ok
    /\ \E u \in last.old : ~u.is_active
    /\ conversations # {}

\* what the caller of the latest call got back
Result(op) == [ok |-> op.ok, err |-> op.err, rows |-> op.rows, flag |-> op.flag]

\* C11: getConversations(userId) returns exactly the conversations owned by
\* userId, each once and none of another user, ordered by updated_at with the
\* most recently updated first; the list is empty when the user owns none or
\* does not exist; nothing is written.
C11_GetConversations ==
    [][last'.op = "getConversations" =>
         LET results == last'.list
             owned == {c \in conversations : c.user_id = last'.arg.user_id}
         IN
         /\ Range(results) = owned
         /\ Len(results) = Cardinality(owned)
         /\ \A i, j \in DOMAIN results :
               i < j => results[i].updated_at >= results[j].updated_at
         /\ last'.arg.user_id \notin Ids(users) => Len(results) = 0
         /\ conversations' = conversations]_vars

\* a list of two conversations in which the older one, updated later, comes first
C11_Witness ==
    /\ last.op = "getConversations"
    /\ Len(last.list) = 2
    /\ last.list[1].id < last.list[2].id
    /\ last.list[1].updated_at > last.list[2].updated_at

\* C12: when the caller owns no conversation with the given id, whether
\* another user owns one or the id does not exist, updateConversation throws
\* "Conversation not found or access denied" and deleteConversation returns
\* false, the result being the same in both cases, and conversations and
\* messages stay as they were.
C12_NotOwnerLikeMissing ==
    [][(/\ last'.op \in {"updateConversation", "deleteConversation"}
        /\ ~\E c \in conversations :
               c.id = last'.arg.id /\ c.user_id = last'.arg.user_id)
       =>
         /\ last'.op = "updateConversation" =>
               Result(last') = [ok |-> FALSE, err |-> ErrNotFoundOrDenied,
                                rows |-> {}, flag |-> FALSE]
         /\ last'.op = "deleteConversation" =>
               Result(last') = [ok |-> TRUE, err |-> NoErr,
                                rows |-> {}, flag |-> FALSE]
         /\ conversations' = conversations
         /\ messages' = messages
         /\ researchSources' = researchSources]_vars

\* an update was refused for a conversation that exists, has a message and
\* belongs to another user
C12_Witness ==
    /\ last.op = "updateConversation"
    /\ ~last.ok
    /\ \E c \in conversations :
          /\ c.id = last.arg.id
          /\ c.user_id # last.arg.user_id
          /\ \E m \in messages : m.conversation_id = c.id

\* C13: a successful updateConversation sets updated_at to the time of the
\* call, with or without a title; the title becomes the supplied one when one
\* is supplied, the empty string included, and stays otherwise; id, user_id and
\* created_at stay, and no other conversation changes.
C13_UpdateConversation ==
    [][(last'.op = "updateConversation" /\ last'.ok) =>
         \E c \in conversations, d \in conversations' :
            /\ c.id = last'.arg.id
            /\ conversations' = (conversations \ {c}) \cup {d}
            /\ last'.rows = {d}
            /\ d.updated_at = now
            /\ d.title = (IF last'.arg.title = Undefined THEN c.title
                          ELSE last'.arg.title)
            /\ d.id = c.id
            /\ d.user_id = c.user_id
            /\ d.created_at = c.created_at]_vars

\* an update without title moved updated_at forward and kept the title
C13_Witness ==
    /\ last.op = "updateConversation"
    /\ last.ok
    /\ last.arg.title = Undefined
    /\ \E c \in last.old, d \in last.rows :
          /\ d.updated_at > c.updated_at
          /\ d.title = c.title
          /\ d.created_at < d.updated_at

\* C14: deleteConversation(id, userId) never throws, returns true exactly when
\* a conversation with that id owned by userId existed at the call, and removes
\* that conversation and no other.
C14_DeleteConversation ==
    [][last'.op = "deleteConversation" =>
         /\ last'.ok
         /\ last'.flag <=> (\E c \in conversations :
                               c.id = last'.arg.id /\ c.user_id = last'.arg.user_id)
         /\ conversations' =
               {c \in conversations :
                   ~(c.id = last'.arg.id /\ c.user_id = last'.arg.user_id)}]_vars

\* a conversation was deleted by its owner while one of another user stayed
C14_Witness ==
    /\ last.op = "deleteConversation"
    /\ last.flag
    /\ \E c \in conversations : c.user_id # last.arg.user_id

\* C15: every message refers to a stored conversation and every research
\* source to a stored message; a successful deleteConversation removes exactly
\* the messages of the deleted conversation and the research sources of those
\* messages.
C15_Cascade ==
    /\ [](/\ \A m \in messages : m.conversation_id \in Ids(conversations)
          /\ \A s \in researchSources : s.message_id \in Ids(messages))
    /\ [][(last'.op = "deleteConversation" /\ last'.flag) =>
            /\ messages' = {m \in messages : m.conversation_id # last'.arg.id}
            /\ researchSources' =
                  {s \in researchSources :
                      \A m \in messages :
                          m.id = s.message_id => m.conversation_id # last'.arg.id}]_vars

\* a conversation was deleted together with a message and its research source
\* while the message of another conversation stayed
C15_Witness ==
    /\ last.op = "deleteConversation"
    /\ last.flag
    /\ nextSourceId > 1
    /\ researchSources = {}
    /\ messages # {}

\* TRUE when q occurs in text as a run of consecutive characters, letter case
\* ignored
occursIn(q, text) ==
    \E i \in 0..(Len(text) - Len(q)) :
        \A k \in 1..Len(q) : toLowerCase(text[i + k]) = toLowerCase(q[k])

\* TRUE when the query holds nothing but blanks
isBlank(query) == \A i \in DOMAIN query : query[i] = " "

\* C16: searchConversations with an empty or whitespace-only query returns the
\* empty list, whoever asks and whatever is stored.
C16_BlankQuery ==
    [][(last'.op = "searchConversations" /\ isBlank(last'.arg.query)) =>
         Len(last'.list) = 0]_vars

\* a blank query was answered with the empty list for a user who owns a
\* conversation with a message that holds a blank
C16_Witness ==
    /\ last.op = "searchConversations"
    /\ last.arg.query = <<" ">>
    /\ Len(last.list) = 0
    /\ \E c \in conversations, m \in messages :
          /\ c.user_id = last.arg.user_id
          /\ m.conversation_id = c.id
          /\ occursIn(<<" ">>, m.content)

\* C17: every conversation searchConversations(userId, query) returns for a
\* query that is not blank is owned by userId, also when conversations of
\* other users match by title or by message.
C17_SearchOwnOnly ==
    [][(last'.op = "searchConversations" /\ ~isBlank(last'.arg.query)) =>
         /\ \A i \in DOMAIN last'.list : last'.list[i].user_id = last'.arg.user_id
         /\ Range(last'.list) \subseteq conversations]_vars

\* a search returned a conversation of the caller while a conversation of
\* another user matched by title and by message
C17_Witness ==
    /\ last.op = "searchConversations"
    /\ Len(last.list) > 0
    /\ \E c \in conversations, m \in messages :
          /\ c.user_id # last.arg.user_id
          /\ occursIn(trim(last.arg.query), c.title)
          /\ m.conversation_id = c.id
          /\ occursIn(trim(last.arg.query), m.content)

\* C18: the list searchConversations returns holds each conversation id at
\* most once, also for a conversation that matches by title and by several
\* messages, and is ordered by updated_at, the most recently updated first.
C18_SearchUniqueSorted ==
    [][last'.op = "searchConversations" =>
         LET results == last'.list IN
         /\ \A i, j \in DOMAIN results : i < j => results[i].id # results[j].id
         /\ \A i, j \in DOMAIN results :
               i < j => results[i].updated_at >= results[j].updated_at]_vars

\* a search returned two conversations, the later updated one first, one of
\* them matching by title and by two messages
C18_Witness ==
    /\ last.op = "searchConversations"
    /\ Len(last.list) = 2
    /\ last.list[1].updated_at > last.list[2].updated_at
    /\ \E i \in DOMAIN last.list :
          /\ occursIn(trim(last.arg.query), last.list[i].title)
          /\ Cardinality({m \in messages :
                /\ m.conversation_id = last.list[i].id
                /\ occursIn(trim(last.arg.query), m.content)}) = 2

\* C19: for a query that is not blank, searchConversations(userId, query)
\* returns a conversation owned by userId if and only if the trimmed query
\* occurs, letter case ignored, in its title or in the content of one of its
\* messages, whatever characters the query holds.
C19_SearchIsSubstring ==
    [][(last'.op = "searchConversations" /\ ~isBlank(last'.arg.query)) =>
         LET q == trim(last'.arg.query) IN
         Range(last'.list) =
            {c \in conversations :
                /\ c.user_id = last'.arg.user_id
                /\ \/ occursIn(q, c.title)
                   \/ \E m \in messages :
                         m.conversation_id = c.id /\ occursIn(q, m.content)}]_vars

C21_GetConversationMessages ==
    [][last'.op = "getConversationMessages" =>
         LET results == last'.list
             stored == {m \in messages : m.conversation_id = last'.arg.id}
         IN
         /\ Range(results) = stored
         /\ Len(results) = Cardinality(stored)
         /\ \A i, j \in DOMAIN results :
               results[i].created_at < results[j].created_at => i < j
         /\ last'.arg.id \notin Ids(conversations) => Len(results) = 0
         /\ messages' = messages]_vars

\* two messages written at different times were returned in that order, one
\* of them with a citation, while another conversation is stored
C21_Witness ==
    /\ last.op = "getConversationMessages"
    /\ Len(last.list) = 2
    /\ last.list[1].created_at < last.list[2].created_at
    /\ \E i \in 1..2 : last.list[i].sources = SourcesArray(<<Citation>>)
    /\ \E c \in conversations : c.id # last.arg.id

\* C22: createMessage and aiChatResearch called with the id of no stored
\* conversation fail with their not-found error and leave the stored messages
\* as they were; a call that failed takes no further step.
C22_NotFoundBeforeWrite ==
    [][/\ (/\ last'.op = "createMessage"
           /\ last'.arg.conversation_id \notin Ids(conversations))
          => /\ ~last'.ok
             /\ last'.err = ErrConversationNotFound(last'.arg.conversation_id)
             /\ messages' = messages
       /\ (/\ last'.op = "aiChatResearch"
           /\ last'.arg.conversation_id \notin Ids(conversations))
          => /\ ~last'.ok
             /\ last'.err = ErrChatNotFound
             /\ calls'[last'.arg.call].pc = "failed"
             /\ messages' = messages
       /\ \A k \in DOMAIN calls :
             calls[k].pc = "failed" => calls'[k] = calls[k] /\ calls[k].rows = {}]_vars

\* aiChatResearch failed for an unknown conversation while another
\* conversation holds messages
C22_Witness ==
    /\ last.op = "aiChatResearch"
    /\ ~last.ok
    /\ calls[last.arg.call].pc = "failed"
    /\ messages # {}

\* C23: the second statement of aiChatResearch adds one message with role
\* user, the input message as content and null sources; the third adds one
\* message with role assistant in the same conversation, after the user
\* message, with null sources when research is disabled and a non-empty list
\* when it is enabled, and the call returns that row; each statement adds
\* this one message and changes no other.
C23_AiChatTwoMessages ==
    [][/\ (last'.op = "aiChatInsertUser" /\ last'.ok) =>
            \E m \in messages' :
               /\ m \notin messages
               /\ messages' = messages \cup {m}
               /\ m.role = "user"
               /\ m.content = last'.arg.message
               /\ m.sources = SourcesNull
               /\ m.conversation_id = last'.arg.conversation_id
               /\ calls'[last'.arg.call].userMsgId = m.id
               /\ calls'[last'.arg.call].pc = "insertAssistant"
       /\ (last'.op = "aiChatInsertAssistant" /\ last'.ok) =>
            \E a \in messages', u \in messages :
               /\ a \notin messages
               /\ messages' = messages \cup {a}
               /\ a.role = "assistant"
               /\ a.conversation_id = last'.arg.conversation_id
               /\ IF last'.arg.enable_research
                  THEN a.sources.kind = "array" /\ Len(a.sources.items) > 0
                  ELSE a.sources = SourcesNull
               /\ calls'[last'.arg.call].pc = "done"
               /\ calls'[last'.arg.call].rows = {a}
               /\ last'.rows = {a}
               /\ u.id = calls[last'.arg.call].userMsgId
               /\ u.id < a.id
               /\ u.role = "user"
               /\ u.content = last'.arg.message
               /\ u.conversation_id = a.conversation_id
       /\ \A k \in DOMAIN calls :
             calls[k].userMsgId # 0 => calls'[k].userMsgId = calls[k].userMsgId]_vars

\* a call without research completed with null sources while another
\* conversation holds messages
C23_Witness ==
    /\ last.op = "aiChatInsertAssistant"
    /\ last.ok
    /\ ~last.arg.enable_research
    /\ \E a \in last.rows : a.sources = SourcesNull
    /\ \E m \in messages : m.conversation_id # last.arg.conversation_id

\* C24: when the third statement of aiChatResearch fails, the error reaches
\* the caller, the user message the call wrote is still stored and no
\* assistant message is created for it.
C24_UserMessageStays ==
    [][(last'.op = "aiChatInsertAssistant" /\ ~last'.ok) =>
         /\ last'.err # NoErr
         /\ calls'[last'.arg.call].rows = {}
         /\ \E u \in messages' : u.id = calls[last'.arg.call].userMsgId]_vars

\* C24 as amended: when the third statement of aiChatResearch fails, the error
\* reaches the caller, no assistant message is created and the call removes
\* nothing: the user message is still stored whenever its conversation is, and
\* is gone only when the conversation was deleted in between, which removed it
\* by cascade.
C24_NoRollback ==
    [][(last'.op = "aiChatInsertAssistant" /\ ~last'.ok) =>
         LET call == calls[last'.arg.call] IN
         /\ last'.err # NoErr
         /\ calls'[last'.arg.call].pc = "failed"
         /\ calls'[last'.arg.call].err = last'.err
         /\ calls'[last'.arg.call].rows = {}
         /\ messages' = messages
         /\ (call.input.conversation_id \in Ids(conversations)) <=>
               (\E u \in messages' : u.id = call.userMsgId /\ u.role = "user")]_vars

\* the assistant insert failed in a stored conversation and the user message
\* of the call is stored without a reply
C24_Witness ==
    /\ last.op = "aiChatInsertAssistant"
    /\ ~last.ok
    /\ last.err = ErrDatabase
    /\ \E u \in messages : u.id = calls[last.arg.call].userMsgId
    /\ ~\E a \in messages : a.role = "assistant"

\* the ids of the messages the call at place k wrote
WrittenBy(k) ==
    (IF calls[k].userMsgId = 0 THEN {} ELSE {calls[k].userMsgId}) \cup Ids(calls[k].rows)

\* C29: for every completed aiChatResearch call no message written by another
\* aiChatResearch call lies, in the order of insertion into the conversation,
\* between the user message of the call and its assistant reply.
C29_ReplyDirectlyAfter ==
    \A k \in DOMAIN calls :
        calls[k].pc = "done" =>
            \A a \in calls[k].rows :
                ~\E j \in DOMAIN calls, m \in messages :
                    /\ j # k
                    /\ m.id \in WrittenBy(j)
                    /\ m.conversation_id = a.conversation_id
                    /\ calls[k].userMsgId < m.id
                    /\ m.id < a.id

\* C29 as amended: the assistant reply of every completed aiChatResearch call
\* is stored after the user message it answers, in the same conversation and
\* not with an earlier creation time, and a call that has not completed has
\* no reply; messages of other calls may lie between the two.
C29_ReplyAfterItsQuestion ==
    \A k \in DOMAIN calls :
        /\ calls[k].pc = "done" =>
              \E u \in messages, a \in messages :
                 /\ u.id = calls[k].userMsgId
                 /\ calls[k].rows = {a}
                 /\ u.id < a.id
                 /\ u.created_at <= a.created_at
                 /\ u.conversation_id = a.conversation_id
                 /\ u.role = "user"
                 /\ a.role = "assistant"
                 /\ Cardinality(WrittenBy(k)) = 2
        /\ calls[k].pc # "done" => calls[k].rows = {}

\* two calls on one conversation completed, the user message of the second
\* written between the user message and the reply of the first
C29_Witness ==
    /\ Len(calls) = 2
    /\ calls[1].pc = "done"
    /\ calls[2].pc = "done"
    /\ calls[1].input.conversation_id = calls[2].input.conversation_id
    /\ \E a \in calls[1].rows :
          calls[1].userMsgId < calls[2].userMsgId /\ calls[2].userMsgId < a.id

\* C25: loginUser(email, q) for an active user whom createUser stored with
\* password p succeeds and issues a session for that user when q = p, and
\* fails with "Invalid credentials" when q differs from p.
C25_RegisterThenLogin ==
    [][last'.op = "loginUser" =>
         \A u \in users, p \in Passwords, salt \in Salts :
            (/\ u.email = last'.arg.email
             /\ u.is_active
             /\ u.password_hash = HashPassword(p, salt))
            => IF last'.arg.password = p
               THEN /\ last'.ok
                    /\ \E s \in sessions' :
                          s \notin sessions /\ s.user_id = u.id /\ last'.rows = {s}
               ELSE ~last'.ok /\ last'.err = ErrInvalid]_vars

\* C26: every session row that a call adds belongs to a user who is active
\* when the row is added.
C26_NoSessionForInactive ==
    [][\A s \in sessions' :
          s \notin sessions =>
             \E u \in users' : u.id = s.user_id /\ u.is_active]_vars

\* C30: a user whose google_id is not null keeps that google_id through every
\* call, so that a sign-in with it finds the same user afterwards.
C30_GoogleIdStable ==
    [][\A u \in users :
          u.google_id # NULL =>
             \E v \in users' : v.id = u.id /\ v.google_id = u.google_id]_vars

\* C27: of two createUser calls with one email that have both ended, whatever
\* the order of their statements, not both succeeded and a user with that
\* email is stored; no email is stored twice; and every createUser call that
\* failed threw "User with this email already exists".
C27_ConcurrentCreateUser ==
    /\ \A u, v \in users : u.email = v.email => u.id = v.id
    /\ \A k, j \in DOMAIN calls :
          (/\ k # j
           /\ calls[k].op = "createUser" /\ calls[j].op = "createUser"
           /\ calls[k].input.email = calls[j].input.email
           /\ calls[k].pc \in {"done", "failed"}
           /\ calls[j].pc \in {"done", "failed"})
          => /\ ~(calls[k].pc = "done" /\ calls[j].pc = "done")
             /\ \E u \in users : u.email = calls[k].input.email
    /\ \A k \in DOMAIN calls :
          (calls[k].op = "createUser" /\ calls[k].pc = "failed")
          => calls[k].err = ErrExists

\* C28: a message sent from the chat page adds exactly one stored user message
\* with the typed content and exactly one stored assistant message, the two
\* messages the page shows for it.
C28_SendMessageStoresTwo ==
    [][(last'.op = "sendMessage" /\ last'.flag) =>
         LET added == messages' \ messages IN
         /\ Cardinality({m \in added :
                m.role = "user" /\ m.content = last'.arg.message}) = 1
         /\ Cardinality({m \in added : m.role = "assistant"}) = 1
         /\ added = last'.rows
         /\ Range(ui'.messages) =
               {m \in messages' : m.conversation_id = ui'.conversation}]_vars
====
